---- MODULE Spec2Model ----
(***************************************************************************)
(* Blasius boundary-layer shooting solver: the fixed-step RK4 integrator   *)
(* runge_kutta_4th_order and the secant iteration secant_method of         *)
(* test-checkpoint.ipynb.                                                  *)
(*                                                                         *)
(* Numbers.  The program computes in IEEE-754 binary64.  The model keeps   *)
(* the structure of that arithmetic at reduced width: a finite number is   *)
(* an integer count v of units 1/Scale (so it denotes v/Scale), every      *)
(* operation rounds its exact result to the nearest unit, a result whose   *)
(* magnitude exceeds MaxMag overflows to an infinity, and the invalid      *)
(* operations (0/0, inf-inf, 0*inf, inf/inf) give NaN, which propagates    *)
(* and compares false with everything.  The sign of zero is not kept: x/0  *)
(* takes the sign of x.                                                    *)
(***************************************************************************)
EXTENDS Integers, Sequences, FiniteSets, TLC

\* ------------------------------------------------------------------------
\* Bounds of the model
\* ------------------------------------------------------------------------
ScaleBits == 6
RangeBits == 7

Scale == 2 ^ ScaleBits
MaxMag == Scale * (2 ^ RangeBits)

\* ------------------------------------------------------------------------
\* Reduced-width floating arithmetic
\* ------------------------------------------------------------------------
Fin(n) == [k |-> "fin", v |-> n]
PInf == [k |-> "inf", v |-> 1]
NInf == [k |-> "inf", v |-> -1]
NaN == [k |-> "nan", v |-> 0]

IsFin(a) == a.k = "fin"
IsNaN(a) == a.k = "nan"
IsInf(a) == a.k = "inf"

Sgn(n) == IF n > 0 THEN 1 ELSE IF n < 0 THEN -1 ELSE 0
AbsInt(n) == IF n < 0 THEN -n ELSE n

InfOf(s) == IF s < 0 THEN NInf ELSE PInf

\* round an exact count of units into the representable range
Rnd(n) == IF n > MaxMag THEN PInf ELSE IF n < -MaxMag THEN NInf ELSE Fin(n)

\* n / d rounded to the nearest integer, d > 0
RoundDiv(n, d) == (2 * n + d) \div (2 * d)

Zero == Fin(0)
One == Fin(Scale)
Two == Fin(2 * Scale)
Six == Fin(6 * Scale)
Half == Fin(Scale \div 2)
NegHalf == Fin(-(Scale \div 2))

\* The operators below take their operands by value: the operand expressions
\* are evaluated once (bound through a singleton set) before the case analysis.
TheOne(S) == CHOOSE x \in S : TRUE

NegOf(a) == IF IsNaN(a) THEN NaN ELSE [k |-> a.k, v |-> -a.v]

SumOf(a, b) ==
    IF IsNaN(a) \/ IsNaN(b) THEN NaN
    ELSE IF IsInf(a) /\ IsInf(b) THEN (IF a.v = b.v THEN a ELSE NaN)
    ELSE IF IsInf(a) THEN a
    ELSE IF IsInf(b) THEN b
    ELSE Rnd(a.v + b.v)

ProductOf(a, b) ==
    IF IsNaN(a) \/ IsNaN(b) THEN NaN
    ELSE IF IsInf(a) \/ IsInf(b)
         THEN (IF Sgn(a.v) * Sgn(b.v) = 0 THEN NaN ELSE InfOf(Sgn(a.v) * Sgn(b.v)))
    ELSE Rnd(RoundDiv(a.v * b.v, Scale))

QuotientOf(a, b) ==
    IF IsNaN(a) \/ IsNaN(b) THEN NaN
    ELSE IF IsInf(a) THEN (IF IsInf(b) THEN NaN
                           ELSE InfOf(a.v * (IF b.v < 0 THEN -1 ELSE 1)))
    ELSE IF IsInf(b) THEN Zero
    ELSE IF b.v = 0 THEN (IF a.v = 0 THEN NaN ELSE InfOf(a.v))
    ELSE Rnd(RoundDiv(Sgn(b.v) * a.v * Scale, AbsInt(b.v)))

AbsOf(a) == IF IsNaN(a) THEN NaN ELSE [k |-> a.k, v |-> AbsInt(a.v)]

\* a < b ; false as soon as one side is NaN
LessOf(a, b) ==
    IF IsNaN(a) \/ IsNaN(b) THEN FALSE
    ELSE IF IsInf(a) THEN (a.v < 0 /\ ~(IsInf(b) /\ b.v < 0))
    ELSE IF IsInf(b) THEN b.v > 0
    ELSE a.v < b.v

FNeg(a) == TheOne({NegOf(x) : x \in {a}})
FAdd(a, b) == TheOne({SumOf(x, y) : x \in {a}, y \in {b}})
FSub(a, b) == TheOne({SumOf(x, NegOf(y)) : x \in {a}, y \in {b}})
FMul(a, b) == TheOne({ProductOf(x, y) : x \in {a}, y \in {b}})
FDiv(a, b) == TheOne({QuotientOf(x, y) : x \in {a}, y \in {b}})
FAbs(a) == TheOne({AbsOf(x) : x \in {a}})
FLess(a, b) == TheOne({LessOf(x, y) : x \in {a}, y \in {b}})

Last(s) == s[Len(s)]


\* ------------------------------------------------------------------------
\* runge_kutta_4th_order: the grid and one integration step
\* ------------------------------------------------------------------------

\* smallest integer >= q, for a finite q
CeilInt(q) == -((-(q.v)) \div Scale)

\* len(np.arange(0, stop, step)) = max(0, ceil((stop - 0) / step))
ArangeLen(stop, step) ==
    LET q == FDiv(FSub(stop, Zero), step)
    IN  IF CeilInt(q) > 0 THEN CeilInt(q) ELSE 0

\* np.arange(0, stop, step): element j (1-based) is 0 + (j-1)*step
Arange(stop, step) ==
    [j \in 1..ArangeLen(stop, step) |-> FAdd(Zero, FMul(Fin((j - 1) * Scale), step))]

\* variant: the grid stops short of the endpoint, np.arange(0, eta_max, h)
EtaGrid_NoEndpoint(em, hh) == Arange(em, hh)

\* eta = np.arange(0, eta_max+h, h)
EtaGrid(em, hh) == Arange(FAdd(em, hh), hh)

\* variant: the third component written -0.5 + f*fpp
K1_Additive(s, hh) ==
    <<FMul(hh, s[2]),
      FMul(hh, s[3]),
      FMul(hh, FAdd(NegHalf, FMul(s[1], s[3])))>>

\* k1 = h * [fp, fpp, -0.5*f*fpp]
K1(s, hh) ==
    <<FMul(hh, s[2]),
      FMul(hh, s[3]),
      FMul(hh, FMul(FMul(NegHalf, s[1]), s[3]))>>

\* variant: the nonlinear term keeps the f of the step's start
KHalf_StaleF(s, k, hh) ==
    <<FMul(hh, FAdd(s[2], FMul(Half, k[2]))),
      FMul(hh, FAdd(s[3], FMul(Half, k[3]))),
      FMul(hh, FMul(FMul(NegHalf, s[1]), FAdd(s[3], FMul(Half, k[3]))))>>

\* k2, k3 = h * [fp + 0.5*k[1], fpp + 0.5*k[2], -0.5*(f+0.5*k[0])*(fpp+0.5*k[2])]
KHalf(s, k, hh) ==
    <<FMul(hh, FAdd(s[2], FMul(Half, k[2]))),
      FMul(hh, FAdd(s[3], FMul(Half, k[3]))),
      FMul(hh, FMul(FMul(NegHalf, FAdd(s[1], FMul(Half, k[1]))),
                    FAdd(s[3], FMul(Half, k[3]))))>>

\* k4 = h * [fp + k3[1], fpp + k3[2], -0.5*(f+k3[0])*(fpp+k3[2])]
K4(s, k, hh) ==
    <<FMul(hh, FAdd(s[2], k[2])),
      FMul(hh, FAdd(s[3], k[3])),
      FMul(hh, FMul(FMul(NegHalf, FAdd(s[1], k[1])), FAdd(s[3], k[3])))>>

\* x[-1] + (k1[j] + 2*k2[j] + 2*k3[j] + k4[j]) / 6
Combine(x, a, b, c, d) ==
    FAdd(x, FDiv(FAdd(FAdd(FAdd(a, FMul(Two, b)), FMul(Two, c)), d), Six))

\* one pass of the loop body: s = <<f[-1], fp[-1], fpp[-1]>>, result the
\* appended <<f, fp, fpp>>; k1..k4 are computed once each, in this order
RK4Step(s, hh) ==
    TheOne({ TheOne({ TheOne({ TheOne({
        <<Combine(s[1], k1[1], k2[1], k3[1], k4[1]),
          Combine(s[2], k1[2], k2[2], k3[2], k4[2]),
          Combine(s[3], k1[3], k2[3], k3[3], k4[3])>>
        : k4 \in {K4(s, k3, hh)} })
        : k3 \in {KHalf(s, k2, hh)} })
        : k2 \in {KHalf(s, k1, hh)} })
        : k1 \in {K1(s, hh)} })

\* the trajectory lists after the initial conditions
InitTraj(f1_0) == [f |-> <<Zero>>, fp |-> <<Zero>>, fpp |-> <<f1_0>>]

\* the trajectory lists after one more pass of the loop
Extend(t, hh) ==
    TheOne({ [f |-> Append(t.f, nx[1]), fp |-> Append(t.fp, nx[2]),
              fpp |-> Append(t.fpp, nx[3])]
             : nx \in {RK4Step(<<Last(t.f), Last(t.fp), Last(t.fpp)>>, hh)} })

\* for i in range(1, n): n - 1 passes (none when n <= 1)
RECURSIVE Integrate(_, _, _)
Integrate(t, passes, hh) ==
    IF passes <= 0 THEN t ELSE Integrate(Extend(t, hh), passes - 1, hh)

\* the whole function, as one value: the three lists and the grid
runge_kutta_4th_order(f1_0, em, hh) ==
    LET grid == EtaGrid(em, hh)
        t == Integrate(InitTraj(f1_0), Len(grid) - 1, hh)
    IN  [f |-> t.f, fp |-> t.fp, fpp |-> t.fpp, eta |-> grid]


\* ------------------------------------------------------------------------
\* secant_method as a state machine; each Integrator call runs pass by pass
\* ------------------------------------------------------------------------

\* for i in range(100)
MaxIter == 100

\* inputs of a call: the seed guesses, the tolerance, the grid <<eta_max, h>>
GuessSet == {Zero, Half, One, Fin(Scale + Scale \div 64), Fin(5 * Scale)}
TolSet == {Zero, Fin(Scale \div 64), Fin(Scale \div 32), Fin(Scale \div 8)}
GridSet ==
    { <<Fin(2 * Scale), One>>,
      <<One, One>>,
      <<Fin(2 * Scale), Half>>,
      <<Fin(3 * (Scale \div 4)), Half>>,
      <<Zero, One>>,
      <<NegHalf, One>>,
      <<Fin(-Scale), One>>,
      <<Fin(-2 * Scale), One>>,
      <<Fin(1), Fin(2 * Scale + 1)>> }

\* a local variable that holds no value yet
None == [k |-> "none", v |-> 0]
NoResult == [f |-> <<>>, fp |-> <<>>, fpp |-> <<>>, f2 |-> None, i |-> -1]

VARIABLES
    f1_0_guesses, tol, eta_max, h,      \* arguments of secant_method
    pc,                                 \* position in secant_method
    f1_0_old, f1_0_new, f2_old, f2_new, \* its locals
    i,                                  \* loop index of the next/current pass
    rk_f1_0, f, fp, fpp, eta,           \* the running Integrator call
    result,                             \* the returned tuple
    calls, loop_calls                   \* Integrator calls made: all, in loop

vars == <<f1_0_guesses, tol, eta_max, h, pc, f1_0_old, f1_0_new, f2_old,
          f2_new, i, rk_f1_0, f, fp, fpp, eta, result, calls, loop_calls>>

args == <<f1_0_guesses, tol, eta_max, h>>
secant_locals == <<f1_0_old, f1_0_new, f2_old, f2_new, i>>
rk_locals == <<rk_f1_0, f, fp, fpp, eta>>

Init ==
    /\ f1_0_guesses \in GuessSet \X GuessSet
    /\ tol \in TolSet
    /\ \E g \in GridSet : eta_max = g[1] /\ h = g[2]
    /\ pc = "start"
    /\ f1_0_old = None /\ f1_0_new = None /\ f2_old = None /\ f2_new = None
    /\ i = 0
    /\ rk_f1_0 = None /\ f = <<>> /\ fp = <<>> /\ fpp = <<>> /\ eta = <<>>
    /\ result = NoResult
    /\ calls = 0 /\ loop_calls = 0

\* variant: the lists outlive the call (shared default lists)
RKEnter_SharedLists(arg) ==
    /\ rk_f1_0' = arg
    /\ f' = (IF f = <<>> THEN InitTraj(arg).f ELSE f)
    /\ fp' = (IF fp = <<>> THEN InitTraj(arg).fp ELSE fp)
    /\ fpp' = (IF fpp = <<>> THEN InitTraj(arg).fpp ELSE fpp)
    /\ eta' = EtaGrid(eta_max, h)
    /\ calls' = calls + 1

\* entry of runge_kutta_4th_order(arg, eta_max, h): initial conditions, grid
RKEnter(arg) ==
    /\ rk_f1_0' = arg
    /\ f' = InitTraj(arg).f
    /\ fp' = InitTraj(arg).fp
    /\ fpp' = InitTraj(arg).fpp
    /\ eta' = EtaGrid(eta_max, h)
    /\ calls' = calls + 1

\* the Integrator's loop "for i in range(1, len(eta))" has passes left
RKRunning == Len(f) < Len(eta)

\* variant: the test without abs, x - 1 < tol
Converged_NoAbs(x, t) == FLess(FSub(x, One), t)

\* variant: the test with <=, abs(x - 1) <= tol
Converged_Leq(x, t) ==
    FLess(FAbs(FSub(x, One)), t) \/ FAbs(FSub(x, One)) = t

\* abs(x - 1) < tol
Converged(x, t) == FLess(FAbs(FSub(x, One)), t)

\* f1_0_new - (f2_new - 1) * (f1_0_new - f1_0_old) / (f2_new - f2_old)
SecantNext(new, old, f2n, f2o) ==
    FSub(new, FDiv(FMul(FSub(f2n, One), FSub(new, old)), FSub(f2n, f2o)))

\* f1_0_old, f1_0_new = f1_0_guesses; f2_old = runge_kutta_4th_order(f1_0_old, ..)
SeedCall ==
    /\ pc = "start"
    /\ f1_0_old' = f1_0_guesses[1]
    /\ f1_0_new' = f1_0_guesses[2]
    /\ RKEnter(f1_0_guesses[1])
    /\ pc' = "seed_rk"
    /\ UNCHANGED <<args, f2_old, f2_new, i, result, loop_calls>>

\* one pass of the Integrator's loop: three appends
RKPass ==
    /\ pc \in {"seed_rk", "loop_rk"}
    /\ RKRunning
    /\ \E t \in {Extend([f |-> f, fp |-> fp, fpp |-> fpp], h)} :
           f' = t.f /\ fp' = t.fp /\ fpp' = t.fpp
    /\ UNCHANGED <<args, pc, secant_locals, rk_f1_0, eta, result, calls, loop_calls>>

\* f2_old = (...)[1][-1]
SeedReturn ==
    /\ pc = "seed_rk"
    /\ ~RKRunning
    /\ f2_old' = Last(fp)
    /\ pc' = "loop"
    /\ UNCHANGED <<args, f1_0_old, f1_0_new, f2_new, i, rk_locals, result,
                   calls, loop_calls>>

\* variant: one pass too many, range(101)
LoopCall_OneMore ==
    /\ pc = "loop"
    /\ i <= MaxIter
    /\ RKEnter(f1_0_new)
    /\ loop_calls' = loop_calls + 1
    /\ pc' = "loop_rk"
    /\ UNCHANGED <<args, secant_locals, result>>

\* a pass of "for i in range(100)" begins: the Integrator at f1_0_new
LoopCall ==
    /\ pc = "loop"
    /\ i < MaxIter
    /\ RKEnter(f1_0_new)
    /\ loop_calls' = loop_calls + 1
    /\ pc' = "loop_rk"
    /\ UNCHANGED <<args, secant_locals, result>>

\* variant: return ..., i + 1
Converge_CountFromOne ==
    /\ pc = "loop_rk"
    /\ ~RKRunning
    /\ Converged(Last(fp), tol)
    /\ f2_new' = Last(fp)
    /\ result' = [f |-> f, fp |-> fp, fpp |-> fpp, f2 |-> Last(fp), i |-> i + 1]
    /\ pc' = "returned"
    /\ UNCHANGED <<args, f1_0_old, f1_0_new, f2_old, i, rk_locals, calls, loop_calls>>

\* f2_new = fp[-1]; the test holds: return f, fp, fpp, f2_new, i
Converge ==
    /\ pc = "loop_rk"
    /\ ~RKRunning
    /\ Converged(Last(fp), tol)
    /\ f2_new' = Last(fp)
    /\ result' = [f |-> f, fp |-> fp, fpp |-> fpp, f2 |-> Last(fp), i |-> i]
    /\ pc' = "returned"
    /\ UNCHANGED <<args, f1_0_old, f1_0_new, f2_old, i, rk_locals, calls, loop_calls>>

\* variant: the shift forgets f2_old
SecantUpdate_StalePair ==
    /\ pc = "loop_rk"
    /\ ~RKRunning
    /\ ~Converged(Last(fp), tol)
    /\ f2_new' = Last(fp)
    /\ f1_0_new' = SecantNext(f1_0_new, f1_0_old, Last(fp), f2_old)
    /\ f1_0_old' = f1_0_new
    /\ f2_old' = f2_old
    /\ i' = i + 1
    /\ pc' = "loop"
    /\ UNCHANGED <<args, rk_locals, result, calls, loop_calls>>

\* f2_new = fp[-1]; the test fails: the secant update and the shift
SecantUpdate ==
    /\ pc = "loop_rk"
    /\ ~RKRunning
    /\ ~Converged(Last(fp), tol)
    /\ f2_new' = Last(fp)
    /\ f1_0_new' = SecantNext(f1_0_new, f1_0_old, Last(fp), f2_old)
    /\ f1_0_old' = f1_0_new
    /\ f2_old' = Last(fp)
    /\ i' = i + 1
    /\ pc' = "loop"
    /\ UNCHANGED <<args, rk_locals, result, calls, loop_calls>>

\* the loop ran out: raise RuntimeError
Exhausted ==
    /\ pc = "loop"
    /\ i >= MaxIter
    /\ pc' = "raised"
    /\ UNCHANGED <<args, secant_locals, rk_locals, result, calls, loop_calls>>

Next ==
    \/ SeedCall
    \/ RKPass
    \/ SeedReturn
    \/ LoopCall
    \/ Converge
    \/ SecantUpdate
    \/ Exhausted

Spec == Init /\ [][Next]_vars

\* the interpreter runs the call to its end
FairSpec == Spec /\ WF_vars(Next)


\* ------------------------------------------------------------------------
\* Properties
\* ------------------------------------------------------------------------

\* an Integrator call has run all its passes and is about to return
RKFinished == pc \in {"seed_rk", "loop_rk"} /\ ~RKRunning

\* C1: a returned result is the Integrator's trajectory at the current trial
\* parameter of the converging pass, its last f' is within tol of 1, and the
\* fourth value is that last f' itself; nothing is returned otherwise.
C1_ReturnedIsConverged ==
    IF pc = "returned"
    THEN LET t == runge_kutta_4th_order(f1_0_new, eta_max, h)
         IN  /\ result.f = t.f /\ result.fp = t.fp /\ result.fpp = t.fpp
             /\ result.fpp[1] = f1_0_new
             /\ LET r == FSub(Last(result.fp), One)
                IN  IsFin(r) /\ IsFin(tol) /\ AbsInt(r.v) < tol.v
             /\ result.f2 = Last(result.fp)
    ELSE result = NoResult

\* C1 witness: a call that returned after at least two secant updates
C1_Witness == pc = "returned" /\ result.i >= 2 /\ Len(result.fp) >= 3

\* C2: every call ends; the Integrator runs once for the first seed and at
\* most once per pass of the loop, at most MaxIter + 1 times; the call that
\* raises does so after exactly MaxIter passes and returns no trajectory.
C2_Terminates ==
    /\ <>(pc \in {"returned", "raised"})
    /\ [](/\ calls <= MaxIter + 1
          /\ loop_calls <= MaxIter
          /\ calls <= loop_calls + 1
          /\ loop_calls <= i + 1
          /\ (pc = "raised" => /\ i = MaxIter
                               /\ loop_calls = MaxIter
                               /\ calls = MaxIter + 1
                               /\ result = NoResult))

\* C2 witness: a call that raised after MaxIter passes
C2_Witness == pc = "raised" /\ loop_calls = MaxIter /\ calls = MaxIter + 1

\* C3 (as claimed): a non-converged pass whose two f' values are equal stops
\* the solver there, and leaves no non-finite trial parameter for a next pass.
DegenerateStep ==
    /\ pc = "loop_rk"
    /\ ~RKRunning
    /\ ~Converged(Last(fp), tol)
    /\ Last(fp) = f2_old

C3_DegenerateStops ==
    [][DegenerateStep => (pc' # "loop" /\ IsFin(f1_0_new'))]_vars

\* C4: with tol = 0 the test never holds: no result is returned and the call
\* ends in the non-convergence error.
C4_ZeroTolRaises ==
    /\ [](tol = Zero => pc # "returned" /\ result = NoResult)
    /\ ((tol = Zero) ~> (pc = "raised"))

\* C4 witness: tol = 0 and a pass whose last f' was exactly 1 went on
C4_Witness == tol = Zero /\ pc = "loop" /\ i >= 1 /\ f2_old = One

\* C5 (as claimed): the returned count is the number of passes of the loop
\* run, the converging one included.
C5_CountIsPasses == pc = "returned" => result.i = loop_calls

\* C5 (amended): the returned count is the 0-based index of the converging
\* pass, the number of secant updates made: passes run minus one.
C5_CountIsIndex ==
    pc = "returned" =>
        /\ result.i = loop_calls - 1
        /\ (loop_calls = 1 => result.i = 0)

\* C5 witness: the second seed guess already satisfies the tolerance
C5_Witness == pc = "returned" /\ loop_calls = 1 /\ f1_0_new = f1_0_guesses[2]


\* exact integer ceiling of a / b, b > 0
CeilQuot(a, b) == -((-a) \div b)

\* consecutive grid points differ by exactly h and increase
UniformGrid ==
    \A j \in 1..(Len(eta) - 1) :
        /\ FSub(eta[j + 1], eta[j]) = h
        /\ IsFin(eta[j]) /\ IsFin(eta[j + 1]) /\ eta[j].v < eta[j + 1].v

\* C6 (as claimed): for every eta_max and h > 0 the four sequences have one
\* length, the grid starts at 0, increases by h, and has ceil(eta_max/h) + 1
\* points.
C6_GridAsClaimed ==
    RKFinished =>
        /\ Len(f) = Len(eta) /\ Len(fp) = Len(eta) /\ Len(fpp) = Len(eta)
        /\ Len(eta) >= 1 /\ eta[1] = Zero
        /\ UniformGrid
        /\ Len(eta) = CeilQuot(eta_max.v, h.v) + 1

\* the quotient (eta_max + h) / h as the arithmetic delivers it, in units
GridQuot == RoundDiv((eta_max.v + h.v) * Scale, h.v)
\* that quotient is free of rounding
GridQuotExact == ((eta_max.v + h.v) * Scale) % h.v = 0

\* C6 (amended): when the computed quotient (eta_max + h)/h is positive, the
\* four sequences have one length, the grid starts at 0 and increases by h,
\* and its length is the ceiling of that computed quotient, which is
\* ceil(eta_max/h) + 1 when the quotient is exact; otherwise the grid is
\* empty and f, fp, fpp hold the initial point alone.
C6_GridAmended ==
    RKFinished =>
        IF GridQuot > 0
        THEN /\ Len(f) = Len(eta) /\ Len(fp) = Len(eta) /\ Len(fpp) = Len(eta)
             /\ eta[1] = Zero
             /\ UniformGrid
             /\ Len(eta) = CeilQuot(GridQuot, Scale)
             /\ (GridQuotExact => Len(eta) = CeilQuot(eta_max.v, h.v) + 1)
        ELSE /\ eta = <<>>
             /\ Len(f) = 1 /\ Len(fp) = 1 /\ Len(fpp) = 1

\* C6 witness: a finished call on a grid whose eta_max is no multiple of h
C6_Witness ==
    /\ RKFinished
    /\ eta_max.v > 0 /\ eta_max.v % h.v # 0
    /\ Len(eta) = 3 /\ Len(f) = 3

\* C7: every trajectory starts with f = 0, f' = 0, f'' = the supplied trial
\* parameter; a pass only appends one point to each list; a new call starts
\* from the initial point alone.
C7_FirstPoint ==
    [][/\ (f' # <<>> => f'[1] = Zero /\ fp'[1] = Zero /\ fpp'[1] = rk_f1_0')
       /\ (calls' # calls =>
              rk_f1_0' = (IF pc = "start" THEN f1_0_guesses[1] ELSE f1_0_new))
       /\ (calls' = calls /\ f' # f =>
              /\ Len(f') = Len(f) + 1 /\ SubSeq(f', 1, Len(f)) = f
              /\ Len(fp') = Len(fp) + 1 /\ SubSeq(fp', 1, Len(fp)) = fp
              /\ Len(fpp') = Len(fpp) + 1 /\ SubSeq(fpp', 1, Len(fpp)) = fpp)
       /\ (calls' # calls => Len(f') = 1 /\ Len(fp') = 1 /\ Len(fpp') = 1)
      ]_vars

\* C7 witness: a later call, with a nonzero trial parameter, after two passes
C7_Witness ==
    /\ calls >= 3 /\ Len(fpp) >= 3
    /\ fpp[1] # Zero /\ fpp[3] # fpp[1] /\ fpp[1] = f1_0_new

\* C8: with trial parameter 0 every point of the trajectory is 0.
C8_ZeroTrajectory ==
    (rk_f1_0 = Zero) =>
        \A j \in 1..Len(f) : f[j] = Zero /\ fp[j] = Zero /\ fpp[j] = Zero

\* C8 witness: a finished call at trial parameter 0 on a five-point grid
C8_Witness == RKFinished /\ rk_f1_0 = Zero /\ Len(f) = 5

\* the classical RK4 step for D(s) = [s.f', s.f'', -0.5*s.f*s.f''], on vectors
D(s) == <<s[2], s[3], FMul(FMul(NegHalf, s[1]), s[3])>>
VAdd(a, b) == [j \in 1..3 |-> FAdd(a[j], b[j])]
VScale(c, a) == [j \in 1..3 |-> FMul(c, a[j])]
VOver(a, c) == [j \in 1..3 |-> FDiv(a[j], c)]
ClassicalRK4(s, hh) ==
    LET k1 == VScale(hh, D(s))
        k2 == VScale(hh, D(VAdd(s, VScale(Half, k1))))
        k3 == VScale(hh, D(VAdd(s, VScale(Half, k2))))
        k4 == VScale(hh, D(VAdd(s, k3)))
    IN  VAdd(s, VOver(VAdd(VAdd(VAdd(k1, VScale(Two, k2)), VScale(Two, k3)), k4), Six))

\* C9: every point after the first is the classical RK4 step from the point
\* before it.
C9_ClassicalStep ==
    \A j \in 1..(Len(f) - 1) :
        <<f[j + 1], fp[j + 1], fpp[j + 1]>> = ClassicalRK4(<<f[j], fp[j], fpp[j]>>, h)

\* C9 witness: two steps taken with the nonlinear term at work
C9_Witness ==
    /\ Len(fpp) >= 3 /\ IsFin(fpp[3]) /\ IsFin(f[3])
    /\ fpp[3] # fpp[2] /\ fpp[2] # fpp[1] /\ f[2] # Zero

\* C10: a secant update computes the next guess from the values held before
\* the shift, then f1_0_old is the previous f1_0_new and the stored old f' is
\* the one just computed; at every start of a pass the stored old f' is the
\* Integrator's final f' for the stored f1_0_old.
C10_SecantShift ==
    [][/\ (pc' = "loop" =>
              f2_old' = Last(runge_kutta_4th_order(f1_0_old', eta_max, h).fp))
       /\ (pc = "loop_rk" /\ pc' = "loop" =>
              /\ f1_0_new' =
                    FSub(f1_0_new,
                         FDiv(FMul(FSub(Last(fp), One), FSub(f1_0_new, f1_0_old)),
                              FSub(FSub(Last(fp), One), FSub(f2_old, One))))
              /\ f1_0_old' = f1_0_new
              /\ f2_old' = Last(fp)
              /\ f2_new' = Last(fp))
      ]_vars

\* C10 witness: the third pass is about to start on a moved, finite guess
C10_Witness ==
    /\ pc = "loop" /\ i >= 2
    /\ IsFin(f1_0_new) /\ IsFin(f1_0_old) /\ f1_0_new # f1_0_old
    /\ f1_0_old # f1_0_guesses[2] /\ f2_old = f2_new

====
